---- MODULE Spec2Model ----
(***************************************************************************)
(* ESP-Windy: wind turbine charge controller (src/ESP_Windy.ino).          *)
(*                                                                         *)
(* Voltages are floats in the sketch.  A float is modelled as a record:    *)
(* Num(n) is the number n in tenths of a volt (34.0 V = Num(340)) and NaN  *)
(* is what the float pattern 0xFFFFFFFF of an erased EEPROM cell reads as. *)
(* Every comparison with NaN is false and every difference with NaN is     *)
(* NaN, as in IEEE 754.                                                    *)
(***************************************************************************)
EXTENDS Integers, Sequences, FiniteSets, TLC

VARIABLES
    pc,          \* where the sketch is: "setup", "halted", "wifi", "loop"
    settings,    \* the global Settings struct
    flash,       \* the record persisted by EEPROM (survives a restart)
    dumpActive,  \* static bool dumpActive of loop()
    pin,         \* output level of DUMP_LOAD_PIN
    now,         \* millis()
    lastUpdate,  \* static unsigned long lastUpdate of loop()
    last         \* the step that ran last, with its inputs

vars == <<pc, settings, flash, dumpActive, pin, now, lastUpdate, last>>

----------------------------------------------------------------------------
(* Bounds of the model *)

\* the clock is followed for this many seconds after a restart
MaxSeconds == 2

(* Program constants *)

DefaultAbsorption == 340
DefaultFloat == 320
DefaultHysteresis == 5
Interval == 1000
WifiDelay == 500
HalfBits == 16
ErasedByte == 255
SeeOther == 303

----------------------------------------------------------------------------
(* Float arithmetic on tenths of a volt *)

Num(n) == [nan |-> FALSE, tenths |-> n]

NaN == [nan |-> TRUE, tenths |-> 0]

FGe(a, b) == ~a.nan /\ ~b.nan /\ a.tenths >= b.tenths

FLe(a, b) == ~a.nan /\ ~b.nan /\ a.tenths <= b.tenths

FSub(a, b) == IF a.nan \/ b.nan THEN NaN ELSE Num(a.tenths - b.tenths)

----------------------------------------------------------------------------
(* unsigned long: 32 bits, kept as two 16-bit halves, hi * 2^16 + lo.      *)
(* Sums and differences are taken modulo 2^32, as the sketch's are.        *)

Half == 2 ^ HalfBits

U32(n) == [hi |-> (n \div Half) % Half, lo |-> n % Half]

\* a + d modulo 2^32, for 0 <= d < 2^16
U32Add(a, d) ==
    [hi |-> (a.hi + (a.lo + d) \div Half) % Half, lo |-> (a.lo + d) % Half]

\* a - b modulo 2^32
U32Sub(a, b) ==
    LET borrow == IF a.lo < b.lo THEN 1 ELSE 0
    IN  [hi |-> (a.hi - b.hi - borrow) % Half, lo |-> (a.lo - b.lo) % Half]

\* a >= n, for 0 <= n < 2^16
U32Ge(a, n) == a.hi > 0 \/ a.lo >= n

\* the test is written millis() >= lastUpdate + 1000
TickDue_SumCompare(t, u) ==
    LET due == U32Add(u, Interval)
    IN  t.hi > due.hi \/ (t.hi = due.hi /\ t.lo >= due.lo)

\* millis() - lastUpdate >= 1000, at clock value t with lastUpdate u
TickDue(t, u) == U32Ge(U32Sub(t, u), Interval)

----------------------------------------------------------------------------
(* struct Settings with its default member initialisers *)

DefaultSettings ==
    [absorptionVoltage |-> Num(DefaultAbsorption),
     floatVoltage      |-> Num(DefaultFloat),
     hysteresis        |-> Num(DefaultHysteresis),
     manualOverride    |-> FALSE,
     manualDumpLoad    |-> FALSE]

----------------------------------------------------------------------------
(* String::toFloat() on the text of a request argument.  A text is a       *)
(* sequence of characters.  As atof does, it reads an optional sign, the   *)
(* digits, and a fraction, stops at the first character that fits no       *)
(* number, and yields 0 when no number was read.  The result is in tenths  *)
(* of a volt; the texts of the model carry at most one decimal.            *)

DigitValue ==
    [c \in {"0", "1", "2", "3", "4", "5", "6", "7", "8", "9"} |->
        CASE c = "0" -> 0 [] c = "1" -> 1 [] c = "2" -> 2 [] c = "3" -> 3
          [] c = "4" -> 4 [] c = "5" -> 5 [] c = "6" -> 6 [] c = "7" -> 7
          [] c = "8" -> 8 [] c = "9" -> 9]

IsDigit(c) == c \in DOMAIN DigitValue

\* number of leading digits of s
RECURSIVE DigitRun(_)
DigitRun(s) ==
    IF s = <<>> \/ ~IsDigit(Head(s)) THEN 0 ELSE 1 + DigitRun(Tail(s))

\* value of the first n characters of s, all digits, after acc
RECURSIVE DigitsValue(_, _, _)
DigitsValue(s, n, acc) ==
    IF n = 0 THEN acc
    ELSE DigitsValue(Tail(s), n - 1, 10 * acc + DigitValue[Head(s)])

Unsigned(s) ==
    LET n    == DigitRun(s)
        whole == DigitsValue(s, n, 0)
        rest == SubSeq(s, n + 1, Len(s))
        tenth == IF Len(rest) >= 2 /\ rest[1] = "." /\ IsDigit(rest[2])
                 THEN DigitValue[rest[2]] ELSE 0
    IN  10 * whole + tenth

ToFloat(s) ==
    IF s # <<>> /\ Head(s) = "-" THEN Num(0 - Unsigned(Tail(s)))
    ELSE IF s # <<>> /\ Head(s) = "+" THEN Num(Unsigned(Tail(s)))
    ELSE Num(Unsigned(s))

----------------------------------------------------------------------------
(* Texts of the request arguments *)

\* texts a /save request carries for abs, float and hyst
AbsTexts == {<<"3", "4", ".", "0">>}

FloatTexts == {<<"3", "2", ".", "0">>}

HystTexts == {<<"0">>, <<"-", "0", ".", "5">>, <<"a", "b", "c">>}

\* text a ticked checkbox carries
CheckedTexts == {<<"o", "n">>}

\* toFloat() of the texts the requests carry
FloatOfText == [x \in AbsTexts \cup FloatTexts \cup HystTexts |-> ToFloat(x)]

----------------------------------------------------------------------------
(* The persisted record: EEPROM.put copies the bytes of the struct and     *)
(* EEPROM.get copies them back.  A float is kept as its 32-bit word, a     *)
(* bool as its byte.  The word of NaN is the pattern of all ones (the only *)
(* NaN of the model); the word of a number is named by the number.         *)

ErasedWord == [ones |-> TRUE, image |-> 0]

WordOfFloat(f) == IF f.nan THEN ErasedWord ELSE [ones |-> FALSE, image |-> f.tenths]

FloatOfWord(w) == IF w.ones THEN NaN ELSE Num(w.image)

ByteOfBool(b) == IF b THEN 1 ELSE 0

\* a bool object whose byte is neither 0 nor 1 has no defined value: what
\* the program sees is u, whichever the build produces
BoolOfByte(b, u) == IF b = 0 THEN FALSE ELSE IF b = 1 THEN TRUE ELSE u

Encode(s) ==
    [absorptionVoltage |-> WordOfFloat(s.absorptionVoltage),
     floatVoltage      |-> WordOfFloat(s.floatVoltage),
     hysteresis        |-> WordOfFloat(s.hysteresis),
     manualOverride    |-> ByteOfBool(s.manualOverride),
     manualDumpLoad    |-> ByteOfBool(s.manualDumpLoad)]

Decode(r, uo, um) ==
    [absorptionVoltage |-> FloatOfWord(r.absorptionVoltage),
     floatVoltage      |-> FloatOfWord(r.floatVoltage),
     hysteresis        |-> FloatOfWord(r.hysteresis),
     manualOverride    |-> BoolOfByte(r.manualOverride, uo),
     manualDumpLoad    |-> BoolOfByte(r.manualDumpLoad, um)]

\* the record of a medium that was never written: every byte 0xFF
ErasedRecord ==
    [absorptionVoltage |-> ErasedWord,
     floatVoltage      |-> ErasedWord,
     hysteresis        |-> ErasedWord,
     manualOverride    |-> ErasedByte,
     manualDumpLoad    |-> ErasedByte]

----------------------------------------------------------------------------
(* Control logic of loop(): the dumpActive a tick decides *)

\* absorption threshold compared with > in place of >=
NextDumpActive_StrictAbsorption(v, s, prev) ==
    IF s.manualOverride THEN s.manualDumpLoad
    ELSE IF FGe(v, s.absorptionVoltage) /\ v # s.absorptionVoltage THEN TRUE
    ELSE IF FLe(v, FSub(s.absorptionVoltage, s.hysteresis)) THEN FALSE
    ELSE prev

\* dead-band floor compared with < in place of <=
NextDumpActive_StrictFloor(v, s, prev) ==
    IF s.manualOverride THEN s.manualDumpLoad
    ELSE IF FGe(v, s.absorptionVoltage) THEN TRUE
    ELSE IF FLe(v, FSub(s.absorptionVoltage, s.hysteresis))
            /\ v # FSub(s.absorptionVoltage, s.hysteresis) THEN FALSE
    ELSE prev

\* no dead-band: below the absorption threshold the load is switched off
NextDumpActive_NoDeadBand(v, s, prev) ==
    IF s.manualOverride THEN s.manualDumpLoad
    ELSE IF FGe(v, s.absorptionVoltage) THEN TRUE
    ELSE FALSE

\* the voltage is consulted before the override
NextDumpActive_VoltageFirst(v, s, prev) ==
    IF FGe(v, s.absorptionVoltage) THEN TRUE
    ELSE IF s.manualOverride THEN s.manualDumpLoad
    ELSE IF FLe(v, FSub(s.absorptionVoltage, s.hysteresis)) THEN FALSE
    ELSE prev

\* the hysteresis is added to the absorption threshold, not subtracted
NextDumpActive_FloorAbove(v, s, prev) ==
    IF s.manualOverride THEN s.manualDumpLoad
    ELSE IF FGe(v, s.absorptionVoltage) THEN TRUE
    ELSE IF /\ ~v.nan /\ ~s.absorptionVoltage.nan /\ ~s.hysteresis.nan
            /\ v.tenths <= s.absorptionVoltage.tenths + s.hysteresis.tenths
         THEN FALSE
    ELSE prev

\* the override is consulted only when the voltage rule leaves the
\* decision open
NextDumpActive_OverrideLast(v, s, prev) ==
    IF FGe(v, s.absorptionVoltage) THEN TRUE
    ELSE IF FLe(v, FSub(s.absorptionVoltage, s.hysteresis)) THEN FALSE
    ELSE IF s.manualOverride THEN s.manualDumpLoad
    ELSE prev

NextDumpActive(v, s, prev) ==
    IF s.manualOverride THEN s.manualDumpLoad
    ELSE IF FGe(v, s.absorptionVoltage) THEN TRUE
    ELSE IF FLe(v, FSub(s.absorptionVoltage, s.hysteresis)) THEN FALSE
    ELSE prev

\* digitalWrite(DUMP_LOAD_PIN, dumpActive ? HIGH : LOW): the level written
PinLevel(d) == IF d THEN "HIGH" ELSE "LOW"

\* edge-triggered: the pin is written only when the decision changed
PinWrites_OnChange(prev, next) ==
    IF prev = next THEN <<>> ELSE <<PinLevel(next)>>

\* the levels a tick writes to the pin, in order, when it found dumpActive
\* prev and decided next
PinWrites(prev, next) == <<PinLevel(next)>>

----------------------------------------------------------------------------
(* handleSave(): the settings after the request arguments a are applied *)

HasArg(a, n) == n \in DOMAIN a

\* the float argument is assigned to absorptionVoltage
ApplyUpdate_WrongField(s, a) ==
    [absorptionVoltage |->
         IF HasArg(a, "float") THEN FloatOfText[a["float"]]
         ELSE IF HasArg(a, "abs") THEN FloatOfText[a["abs"]]
         ELSE s.absorptionVoltage,
     floatVoltage |-> s.floatVoltage,
     hysteresis |->
         IF HasArg(a, "hyst") THEN FloatOfText[a["hyst"]] ELSE s.hysteresis,
     manualOverride |-> HasArg(a, "override"),
     manualDumpLoad |-> HasArg(a, "manual")]

\* no hasArg test: the text of an absent argument is empty
ApplyUpdate_NoHasArg(s, a) ==
    LET text(n) == IF HasArg(a, n) THEN a[n] ELSE <<>>
    IN  [absorptionVoltage |-> ToFloat(text("abs")),
         floatVoltage      |-> ToFloat(text("float")),
         hysteresis        |-> ToFloat(text("hyst")),
         manualOverride    |-> HasArg(a, "override"),
         manualDumpLoad    |-> HasArg(a, "manual")]

\* a flag is set when its argument is present and kept when it is absent
ApplyUpdate_StickyFlags(s, a) ==
    [absorptionVoltage |->
         IF HasArg(a, "abs") THEN FloatOfText[a["abs"]] ELSE s.absorptionVoltage,
     floatVoltage |->
         IF HasArg(a, "float") THEN FloatOfText[a["float"]] ELSE s.floatVoltage,
     hysteresis |->
         IF HasArg(a, "hyst") THEN FloatOfText[a["hyst"]] ELSE s.hysteresis,
     manualOverride |-> s.manualOverride \/ HasArg(a, "override"),
     manualDumpLoad |-> s.manualDumpLoad \/ HasArg(a, "manual")]

ApplyUpdate(s, a) ==
    [absorptionVoltage |->
         IF HasArg(a, "abs") THEN FloatOfText[a["abs"]] ELSE s.absorptionVoltage,
     floatVoltage |->
         IF HasArg(a, "float") THEN FloatOfText[a["float"]] ELSE s.floatVoltage,
     hysteresis |->
         IF HasArg(a, "hyst") THEN FloatOfText[a["hyst"]] ELSE s.hysteresis,
     manualOverride |-> HasArg(a, "override"),
     manualDumpLoad |-> HasArg(a, "manual")]

\* EEPROM.commit(): the record in flash after a commit of buffer that
\* succeeded (ok) or failed
\* put without a commit that writes: the record stays as it was
Commit_NeverWrites(old, buffer, ok) == old

Commit(old, buffer, ok) == IF ok THEN buffer ELSE old

----------------------------------------------------------------------------
(* Inputs *)

\* bus voltages the sensor reports, around the default thresholds
BusVoltages == {Num(0), Num(334), Num(335), Num(336), Num(340)}

NoArgs == <<>>

Optional(n, texts) == {NoArgs} \cup {n :> x : x \in texts}

\* the argument lists of a /save request: every field present or not
Requests ==
    {a1 @@ a2 @@ a3 @@ a4 @@ a5 :
        a1 \in Optional("abs", AbsTexts),
        a2 \in Optional("float", FloatTexts),
        a3 \in Optional("hyst", HystTexts),
        a4 \in Optional("override", CheckedTexts),
        a5 \in Optional("manual", CheckedTexts)}

\* records the medium may hold at first power-on: never written, or the
\* defaults as an earlier save left them
InitialRecords == {ErasedRecord, Encode(DefaultSettings)}

\* the clock is followed up to here after a restart, and from as long
\* before it wraps around
Horizon == MaxSeconds * Interval

\* the clock value Horizon before the wrap: 2^32 - Horizon
LateStart == [hi |-> Half - 1, lo |-> Half - Horizon]

\* the clock values that are followed
InWindow(t) ==
    \/ t.hi = 0 /\ t.lo <= Horizon
    \/ t.hi = Half - 1 /\ t.lo >= Half - Horizon

\* the time between two rounds of loop(), in the specification of the clock
ClockSteps == {499, 500}

----------------------------------------------------------------------------
(* The sketch *)

Init ==
    /\ pc = "setup"
    /\ settings = DefaultSettings
    /\ flash \in InitialRecords
    /\ dumpActive = FALSE
    /\ pin = "LOW"
    /\ now = U32(0)
    /\ lastUpdate = U32(0)
    /\ last = [op |-> "reset"]

\* the result of ina226.begin is ignored: setup goes on without the sensor
Setup_IgnoresSensor(sensorOk, uo, um) ==
    /\ pc = "setup"
    /\ settings' = Decode(flash, uo, um)
    /\ pc' = "wifi"
    /\ last' = [op |-> "setup", sensorOk |-> sensorOk]
    /\ UNCHANGED <<flash, dumpActive, pin, now, lastUpdate>>

\* setup() up to the WiFi wait: the sensor is found or the sketch halts;
\* EEPROM.get overwrites settings with the stored record
Setup(sensorOk, uo, um) ==
    /\ pc = "setup"
    /\ IF sensorOk
       THEN /\ settings' = Decode(flash, uo, um)
            /\ pc' = "wifi"
       ELSE /\ settings' = settings
            /\ pc' = "halted"
    /\ last' = [op |-> "setup", sensorOk |-> sensorOk]
    /\ UNCHANGED <<flash, dumpActive, pin, now, lastUpdate>>

\* one round of the WiFi wait: not connected yet, delay(500)
WifiWait ==
    /\ pc = "wifi"
    /\ now.hi = 0 /\ now.lo + WifiDelay <= Horizon
    /\ now' = U32Add(now, WifiDelay)
    /\ last' = [op |-> "wifi"]
    /\ UNCHANGED <<pc, settings, flash, dumpActive, pin, lastUpdate>>

\* WiFi is connected: the handlers are registered and the server begins
WifiConnected ==
    /\ pc = "wifi"
    /\ pc' = "loop"
    /\ last' = [op |-> "begin"]
    /\ UNCHANGED <<settings, flash, dumpActive, pin, now, lastUpdate>>

\* time passes between two rounds of loop()
Elapse(d) ==
    /\ pc = "loop"
    /\ InWindow(U32Add(now, d))
    /\ now' = U32Add(now, d)
    /\ last' = [op |-> "elapse"]
    /\ UNCHANGED <<pc, settings, flash, dumpActive, pin, lastUpdate>>

\* the control runs on a timer of its own, also during the WiFi wait
Tick_WhileWaiting(v) ==
    /\ pc \in {"wifi", "loop"}
    /\ TickDue(now, lastUpdate)
    /\ lastUpdate' = now
    /\ dumpActive' = NextDumpActive(v, settings, dumpActive)
    /\ LET writes == PinWrites(dumpActive, dumpActive')
       IN  /\ pin' = IF writes = <<>> THEN pin ELSE writes[Len(writes)]
           /\ last' = [op |-> "tick", busVoltage |-> v,
                       dumpActive |-> dumpActive, writes |-> writes]
    /\ UNCHANGED <<pc, settings, flash, now>>

\* the timed part of loop(): sample, decide, drive the pin
Tick(v) ==
    /\ pc = "loop"
    /\ TickDue(now, lastUpdate)
    /\ lastUpdate' = now
    /\ dumpActive' = NextDumpActive(v, settings, dumpActive)
    /\ LET writes == PinWrites(dumpActive, dumpActive')
       IN  /\ pin' = IF writes = <<>> THEN pin ELSE writes[Len(writes)]
           /\ last' = [op |-> "tick", busVoltage |-> v,
                       dumpActive |-> dumpActive, writes |-> writes]
    /\ UNCHANGED <<pc, settings, flash, now>>

\* handleRoot(): the status page
HandleRoot ==
    /\ pc = "loop"
    /\ last' = [op |-> "root"]
    /\ UNCHANGED <<pc, settings, flash, dumpActive, pin, now, lastUpdate>>

\* handleSettings(): the settings form
HandleSettings ==
    /\ pc = "loop"
    /\ last' = [op |-> "settings"]
    /\ UNCHANGED <<pc, settings, flash, dumpActive, pin, now, lastUpdate>>

\* the save applies a manual override to the load at once
HandleSave_DrivesPin(a, ok) ==
    /\ pc = "loop"
    /\ settings' = ApplyUpdate(settings, a)
    /\ flash' = Commit(flash, Encode(settings'), ok)
    /\ dumpActive' = IF settings'.manualOverride THEN settings'.manualDumpLoad
                     ELSE dumpActive
    /\ pin' = PinLevel(dumpActive')
    /\ last' = [op |-> "save", args |-> a, ok |-> ok,
                changed |-> settings' # settings,
                written |-> flash' # flash,
                status |-> SeeOther]
    /\ UNCHANGED <<pc, now, lastUpdate>>

\* a save that leaves the manual override switches the load off and
\* restarts the automatic control from there
HandleSave_ResetsControl(a, ok) ==
    /\ pc = "loop"
    /\ settings' = ApplyUpdate(settings, a)
    /\ flash' = Commit(flash, Encode(settings'), ok)
    /\ dumpActive' = IF settings.manualOverride /\ ~settings'.manualOverride
                     THEN FALSE ELSE dumpActive
    /\ pin' = PinLevel(dumpActive')
    /\ last' = [op |-> "save", args |-> a, ok |-> ok,
                changed |-> settings' # settings,
                written |-> flash' # flash,
                status |-> SeeOther]
    /\ UNCHANGED <<pc, now, lastUpdate>>

\* handleSave(): apply the arguments a of the request, put the struct,
\* commit (the commit succeeds or fails: ok), answer 303 with Location "/".
\* The step records whether it changed the settings, whether it changed the
\* persisted record, and the status of the response.
HandleSave(a, ok) ==
    /\ pc = "loop"
    /\ settings' = ApplyUpdate(settings, a)
    /\ flash' = Commit(flash, Encode(settings'), ok)
    /\ last' = [op |-> "save", args |-> a, ok |-> ok,
                changed |-> settings' # settings,
                written |-> flash' # flash,
                status |-> SeeOther]
    /\ UNCHANGED <<pc, dumpActive, pin, now, lastUpdate>>

\* reset or power cycle: only the persisted record survives
Restart ==
    /\ pc # "setup"
    /\ pc' = "setup"
    /\ settings' = DefaultSettings
    /\ dumpActive' = FALSE
    /\ pin' = "LOW"
    /\ now' = U32(0)
    /\ lastUpdate' = U32(0)
    /\ last' = [op |-> "reset"]
    /\ UNCHANGED flash

\* the whole sketch, on a medium whose commits succeed
Next ==
    \/ \E sensorOk \in BOOLEAN, uo \in BOOLEAN, um \in BOOLEAN :
           Setup(sensorOk, uo, um)
    \/ WifiWait
    \/ WifiConnected
    \/ Elapse(Interval)
    \/ \E v \in BusVoltages : Tick(v)
    \/ HandleRoot
    \/ HandleSettings
    \/ \E a \in Requests : HandleSave(a, TRUE)
    \/ Restart

Spec == Init /\ [][Next]_vars

\* the configuration store: startup, the request handlers and restarts, on
\* a medium whose commits may fail, before the first tick is due
NextStore ==
    \/ \E sensorOk \in BOOLEAN, uo \in BOOLEAN, um \in BOOLEAN :
           Setup(sensorOk, uo, um)
    \/ WifiConnected
    \/ HandleRoot
    \/ HandleSettings
    \/ \E a \in Requests, ok \in BOOLEAN : HandleSave(a, ok)
    \/ Restart

SpecStore == Init /\ [][NextStore]_vars

\* the sketch late in a run: a tick has just run, Horizon before the clock
\* wraps around
LateInit ==
    /\ pc = "loop"
    /\ settings = DefaultSettings
    /\ flash = Encode(DefaultSettings)
    /\ dumpActive = FALSE
    /\ pin = "LOW"
    /\ now = LateStart
    /\ lastUpdate = LateStart
    /\ last = [op |-> "tick", busVoltage |-> Num(0), dumpActive |-> FALSE,
               writes |-> <<"LOW">>]

InitClock == Init \/ LateInit

\* the clock and the ticks: startup and loop() without requests, from
\* power-on and across the wrap-around of millis()
NextClock ==
    \/ \E uo \in BOOLEAN, um \in BOOLEAN : Setup(TRUE, uo, um)
    \/ WifiWait
    \/ WifiConnected
    \/ \E d \in ClockSteps : Elapse(d)
    \/ \E v \in BusVoltages : Tick(v)

SpecClock == InitClock /\ [][NextClock]_vars

TypeOK ==
    /\ pc \in {"setup", "halted", "wifi", "loop"}
    /\ dumpActive \in BOOLEAN
    /\ pin \in {"LOW", "HIGH"}
    /\ now.hi \in 0 .. (Half - 1) /\ now.lo \in 0 .. (Half - 1)
    /\ lastUpdate.hi \in 0 .. (Half - 1) /\ lastUpdate.lo \in 0 .. (Half - 1)
    /\ settings.manualOverride \in BOOLEAN
    /\ settings.manualDumpLoad \in BOOLEAN

----------------------------------------------------------------------------
(* The control decision of one tick.  In the state a tick leaves, last     *)
(* holds the sample and the dumpActive the tick found, settings is the     *)
(* configuration it read and dumpActive is what it decided.                *)

Ticked == last.op = "tick"

Sampled == last.busVoltage.tenths

Absorption == settings.absorptionVoltage

Hysteresis == settings.hysteresis

\* the thresholds are numbers, so that comparisons with them can hold
Thresholds == ~Absorption.nan /\ ~Hysteresis.nan

AtOrAboveAbsorption == ~Absorption.nan /\ Sampled >= Absorption.tenths

AtOrBelowFloor ==
    Thresholds /\ Sampled <= Absorption.tenths - Hysteresis.tenths

InDeadBand ==
    /\ Thresholds
    /\ Sampled > Absorption.tenths - Hysteresis.tenths
    /\ Sampled < Absorption.tenths

\* C1: a tick without override whose bus voltage is at or above the
\* absorption voltage decides dumpActive = true, whatever the hysteresis and
\* the previous dumpActive
C1_AbsorptionTurnsOn ==
    (Ticked /\ ~settings.manualOverride /\ AtOrAboveAbsorption) => dumpActive

\* Scenario A: 34.0 / 0.5, load off, 34.0 V sampled, load on
C1_Witness ==
    /\ Ticked /\ ~settings.manualOverride
    /\ Absorption = Num(340) /\ Hysteresis = Num(5)
    /\ last.busVoltage = Num(340) /\ ~last.dumpActive
    /\ dumpActive

\* C2 as claimed: a tick without override whose bus voltage is at or below
\* absorptionVoltage - hysteresis decides dumpActive = false, for every
\* hysteresis the configuration can hold
C2_FloorTurnsOff_Claimed ==
    (Ticked /\ ~settings.manualOverride /\ AtOrBelowFloor) => ~dumpActive

\* C2 as amended: a tick without override whose bus voltage is at or below
\* absorptionVoltage - hysteresis and below absorptionVoltage decides
\* dumpActive = false, whatever the previous dumpActive
C2_FloorTurnsOff ==
    (/\ Ticked /\ ~settings.manualOverride
     /\ AtOrBelowFloor /\ ~AtOrAboveAbsorption) => ~dumpActive

\* the load was on and a sample on the floor itself (33.5 V) turns it off
C2_Witness ==
    /\ Ticked /\ ~settings.manualOverride
    /\ Absorption = Num(340) /\ Hysteresis = Num(5)
    /\ last.busVoltage = Num(335) /\ last.dumpActive
    /\ ~dumpActive

\* C3: a tick without override whose bus voltage is strictly inside the
\* dead-band decides the dumpActive it found
C3_DeadBandHolds ==
    (Ticked /\ ~settings.manualOverride /\ InDeadBand)
        => dumpActive = last.dumpActive

\* Scenario B: 34.0 / 0.5, load on, 33.6 V sampled, load stays on
C3_Witness ==
    /\ Ticked /\ ~settings.manualOverride
    /\ Absorption = Num(340) /\ Hysteresis = Num(5)
    /\ last.busVoltage = Num(336) /\ last.dumpActive
    /\ dumpActive

\* C4: a tick with override decides dumpActive = manualDumpLoad, whatever
\* the bus voltage, the thresholds and the previous dumpActive
C4_OverrideDecides ==
    (Ticked /\ settings.manualOverride) => dumpActive = settings.manualDumpLoad

\* override off-state forced while the voltage is at the absorption
\* threshold and the load was on
C4_Witness ==
    /\ Ticked /\ settings.manualOverride /\ ~settings.manualDumpLoad
    /\ AtOrAboveAbsorption /\ last.dumpActive
    /\ ~dumpActive

\* Scenario D: override on, manualDumpLoad on, 0.0 V sampled, load on
C4_ScenarioD ==
    /\ Ticked /\ settings.manualOverride /\ settings.manualDumpLoad
    /\ last.busVoltage = Num(0) /\ dumpActive

----------------------------------------------------------------------------
(* The configuration in memory and its persisted record *)

Started == pc \in {"wifi", "loop"}

Loaded == last.op = "setup" /\ last.sensorOk

Saved == last.op = "save"

\* C5 as claimed: after startup the configuration in memory has
\* hysteresis >= 0, whatever record was loaded and whatever was saved
C5_HysteresisNonNegative ==
    Started => (~Hysteresis.nan /\ Hysteresis.tenths >= 0)

\* a stored record fails validation: it is the erased record, or its
\* hysteresis is negative
FailsValidation(r) ==
    \/ r = ErasedRecord
    \/ ~r.hysteresis.ones /\ r.hysteresis.image < 0

\* C10 as claimed: when the stored record fails validation, the
\* configuration in memory after the startup load is the compiled-in defaults
C10_InvalidRecordLoadsDefaults ==
    (Loaded /\ FailsValidation(flash)) => settings = DefaultSettings

\* the record in flash is the image of the configuration in memory, and
\* every load of it yields that configuration
Persisted ==
    /\ flash = Encode(settings)
    /\ \A uo \in BOOLEAN, um \in BOOLEAN : Decode(flash, uo, um) = settings

\* the flag bytes of a record are those of bool values
ProperFlags(r) == r.manualOverride \in {0, 1} /\ r.manualDumpLoad \in {0, 1}

\* a startup load of a record some save has written yields the configuration
\* that record is the image of, in all five fields
LoadedWhatWasSaved == (Loaded /\ ProperFlags(flash)) => flash = Encode(settings)

CarriesCurrent(s, a) ==
    /\ HasArg(a, "abs") => ToFloat(a["abs"]) = s.absorptionVoltage
    /\ HasArg(a, "float") => ToFloat(a["float"]) = s.floatVoltage
    /\ HasArg(a, "hyst") => ToFloat(a["hyst"]) = s.hysteresis
    /\ HasArg(a, "override") => s.manualOverride
    /\ HasArg(a, "manual") => s.manualDumpLoad

\* every flag s has set is present in the update a
CarriesFlags(s, a) ==
    /\ s.manualOverride => HasArg(a, "override")
    /\ s.manualDumpLoad => HasArg(a, "manual")

\* C7 as claimed: an update whose present fields all carry the current
\* values leaves the configuration in memory and the persisted record as
\* they were
C7_Idempotent_Claimed ==
    [][(last'.op = "save" /\ CarriesCurrent(settings, last'.args))
          => (settings' = settings /\ flash' = flash)]_vars

\* C7 as amended: an update whose present fields all carry the current
\* values and that contains override and manual whenever the flag is set
\* leaves the configuration in memory as it was, and leaves the persisted
\* record as it was when that record was the image of the configuration
C7_Idempotent ==
    [][(/\ last'.op = "save"
        /\ CarriesCurrent(settings, last'.args)
        /\ CarriesFlags(settings, last'.args))
          => (/\ settings' = settings
              /\ flash = Encode(settings) => flash' = flash)]_vars

\* a committed update that carried a hysteresis and the override flag
\* changed neither the configuration nor the record
C7_Witness ==
    /\ Saved /\ last.ok
    /\ HasArg(last.args, "hyst") /\ HasArg(last.args, "override")
    /\ ~last.changed /\ ~last.written

\* C8: a numeric field whose argument is absent from the update keeps its
\* value, whichever other fields are present
C8_AbsentFieldsKept ==
    [][last'.op = "save" =>
          /\ ~HasArg(last'.args, "abs") =>
                 settings'.absorptionVoltage = settings.absorptionVoltage
          /\ ~HasArg(last'.args, "float") =>
                 settings'.floatVoltage = settings.floatVoltage
          /\ ~HasArg(last'.args, "hyst") =>
                 settings'.hysteresis = settings.hysteresis]_vars

\* an update that carried abs alone changed the configuration: the
\* hysteresis of an earlier save and the float voltage of the erased record
\* are still there
C8_Witness ==
    /\ Saved /\ last.changed
    /\ HasArg(last.args, "abs")
    /\ ~HasArg(last.args, "float") /\ ~HasArg(last.args, "hyst")
    /\ Absorption = Num(340)
    /\ Hysteresis = Num(-5)
    /\ settings.floatVoltage = NaN

\* C9: after a configuration update manualOverride is true exactly when the
\* update contains override, and manualDumpLoad exactly when it contains
\* manual
C9_FlagsFollowPresence ==
    Saved => /\ settings.manualOverride = HasArg(last.args, "override")
             /\ settings.manualDumpLoad = HasArg(last.args, "manual")

\* an update without any argument changed the configuration: it cleared
\* the flags
C9_Witness ==
    /\ Saved /\ last.args = NoArgs /\ last.changed
    /\ ~settings.manualOverride /\ ~settings.manualDumpLoad

----------------------------------------------------------------------------
(* Validation of the fields of an update *)

\* the text is a decimal number: an optional sign, at least one digit, and
\* optionally a point followed by digits only
IsNumeric(t) ==
    LET body == IF t # <<>> /\ Head(t) \in {"-", "+"} THEN Tail(t) ELSE t
        n    == DigitRun(body)
        rest == SubSeq(body, n + 1, Len(body))
    IN  /\ n > 0
        /\ \/ rest = <<>>
           \/ rest[1] = "." /\ DigitRun(Tail(rest)) = Len(rest) - 1

\* the text is a number below zero
IsNegative(t) == IsNumeric(t) /\ Head(t) = "-" /\ Unsigned(Tail(t)) > 0

\* C11 as claimed: a field of an update whose text is not a number, or a
\* hysteresis whose text is a negative number, is rejected: handleSave
\* leaves that field of the configuration at the value it had
C11_InvalidFieldRejected ==
    [][last'.op = "save" =>
          LET a == last'.args
          IN  /\ (HasArg(a, "abs") /\ ~IsNumeric(a["abs"])) =>
                     settings'.absorptionVoltage = settings.absorptionVoltage
              /\ (HasArg(a, "float") /\ ~IsNumeric(a["float"])) =>
                     settings'.floatVoltage = settings.floatVoltage
              /\ (/\ HasArg(a, "hyst")
                  /\ ~IsNumeric(a["hyst"]) \/ IsNegative(a["hyst"])) =>
                     settings'.hysteresis = settings.hysteresis]_vars

----------------------------------------------------------------------------
(* Startup *)

\* the startup that ran last found no sensor
SensorFailed == last.op = "setup" /\ ~last.sensorOk

\* C12: when the sensor fails to initialise, setup halts: the server is not
\* started and the pin is as the reset left it, and from then on no handler
\* and no tick runs; only a reset or power cycle ends the halt
C12_SensorFailureHalts ==
    [][/\ SensorFailed' => (pc' = "halted" /\ pin' = "LOW" /\ ~dumpActive')
       /\ (SensorFailed \/ pc = "halted") => last'.op = "reset"]_vars

\* the sensor was not found after the sketch had run with a saved
\* configuration: the sketch is halted
C12_Witness ==
    /\ SensorFailed /\ pc = "halted"
    /\ flash \notin InitialRecords

----------------------------------------------------------------------------
(* The actuator pin *)

\* C13: every tick writes the pin exactly once, with the level of the
\* dumpActive it decided, also when the decision is the one it found; no
\* other step of the sketch writes the pin
C13_OneWritePerTick ==
    [][/\ last'.op = "tick" =>
              /\ last'.writes = <<PinLevel(dumpActive')>>
              /\ pin' = PinLevel(dumpActive')
       /\ last'.op \notin {"tick", "reset"} => pin' = pin]_vars

\* a tick found the load on, decided on again and wrote HIGH once more
C13_Witness ==
    /\ Ticked /\ last.dumpActive /\ dumpActive
    /\ last.writes = <<"HIGH">> /\ pin = "HIGH"

\* C14: dumpActive and the level of the pin change only in a tick: the
\* status page, the settings form, a save, the startup load and every other
\* step of a run leave both as they were (a reset starts a new run)
C14_OnlyTicksDrive ==
    [][(dumpActive' # dumpActive \/ pin' # pin)
          => last'.op \in {"tick", "reset"}]_vars

\* a save has switched the override on with manualDumpLoad off while the
\* load is on: the load is still on
C14_Witness ==
    /\ Saved /\ last.changed
    /\ settings.manualOverride /\ ~settings.manualDumpLoad
    /\ dumpActive /\ pin = "HIGH"

----------------------------------------------------------------------------
(* The actuator over a run of ticks *)

\* C15: in a tick without override the pin goes from LOW to HIGH only when
\* the sample is at or above the absorption voltage and from HIGH to LOW
\* only when the sample is at or below absorptionVoltage - hysteresis; a
\* sample strictly inside the dead-band of a positive hysteresis leaves
\* dumpActive and the pin as they were, and so do the steps between two
\* ticks: over ticks that all sample inside the dead-band the pin never
\* changes
C15_NoChatter ==
    [][/\ (last'.op = "tick" /\ ~settings.manualOverride) =>
              /\ (pin = "LOW" /\ pin' = "HIGH") => AtOrAboveAbsorption'
              /\ (pin = "HIGH" /\ pin' = "LOW") => AtOrBelowFloor'
              /\ (InDeadBand' /\ Hysteresis.tenths > 0) =>
                     (dumpActive' = dumpActive /\ pin' = pin)
       /\ last'.op \in {"elapse", "root", "settings", "save"} =>
              (dumpActive' = dumpActive /\ pin' = pin)]_vars

\* ripple under the threshold: 34.0 / 0.5, the pin HIGH, 33.6 V sampled,
\* HIGH written again
C15_Witness ==
    /\ Ticked /\ ~settings.manualOverride
    /\ InDeadBand /\ Hysteresis.tenths > 0
    /\ last.busVoltage = Num(336)
    /\ last.dumpActive /\ last.writes = <<"HIGH">> /\ pin = "HIGH"

\* C16: every tick that runs with manualOverride true writes the level of
\* manualDumpLoad to the pin, whatever the sample and whatever the pin was;
\* the flags a save has set stay as saved through every tick and every
\* other step of the run until another save
C16_OverrideDrivesPin ==
    [][/\ (last'.op = "tick" /\ settings.manualOverride) =>
              /\ pin' = IF settings.manualDumpLoad THEN "HIGH" ELSE "LOW"
              /\ last'.writes = <<pin'>>
       /\ last'.op \in {"tick", "elapse", "root", "settings"} =>
              settings' = settings]_vars

\* the saved configuration has the override and manualDumpLoad on: a tick
\* that found the load off and sampled 0.0 V has driven the pin HIGH
C16_Witness ==
    /\ Ticked /\ settings.manualOverride /\ settings.manualDumpLoad
    /\ flash = Encode(settings)
    /\ last.busVoltage = Num(0) /\ ~last.dumpActive
    /\ pin = "HIGH"

----------------------------------------------------------------------------
(* The clock *)

\* the time from clock value u forward to clock value t when that is less
\* than 2^16 ms, and 2^16 when it is more
Forward(u, t) ==
    IF t.hi = u.hi /\ t.lo >= u.lo THEN t.lo - u.lo
    ELSE IF t.hi = (u.hi + 1) % Half /\ t.lo < u.lo THEN Half + t.lo - u.lo
    ELSE Half

\* C17: a tick runs only when the clock is at least 1000 ms past the clock
\* value of the tick before it, which lastUpdate holds from that tick on
\* (for the first tick: at least 1000 ms past 0), also across the
\* wrap-around of the clock; and whenever the clock is that far past
\* lastUpdate the tick can run
C17_TickSpacing ==
    /\ [][/\ last'.op = "tick" =>
                 /\ Forward(lastUpdate, now) >= Interval
                 /\ lastUpdate = U32(0) => (now.hi > 0 \/ now.lo >= Interval)
                 /\ lastUpdate' = now /\ now' = now
          /\ last'.op \notin {"tick", "reset"} =>
                 lastUpdate' = lastUpdate]_vars
    /\ []((pc = "loop" /\ Forward(lastUpdate, now) >= Interval)
             => ENABLED (\E v \in BusVoltages : Tick(v)))

\* a tick has run below clock value 1000: the clock has wrapped around
\* since the tick before it
C17_Witness ==
    /\ Ticked /\ now.hi = 0 /\ now.lo < Interval
    /\ lastUpdate = now

----------------------------------------------------------------------------
(* The response of a save *)

\* C18 as claimed: a save whose commit fails does not answer with the
\* redirect of a successful save, and the configuration in memory holds the
\* updated values
C18_CommitFailureSurfaced ==
    [][(last'.op = "save" /\ ~last'.ok) =>
          /\ last'.status # SeeOther
          /\ settings' = ApplyUpdate(settings, last'.args)]_vars

----------------------------------------------------------------------------
(* Leaving the manual override *)

\* C19: a save that takes manualOverride from true to false leaves
\* dumpActive and the pin as the override forced them; from then on a tick
\* whose sample is strictly inside the dead-band keeps both, and a tick
\* changes the pin only when its sample is at or above the absorption
\* voltage or at or below absorptionVoltage - hysteresis
C19_LeavingOverrideKeepsState ==
    [][/\ (/\ last'.op = "save"
           /\ settings.manualOverride /\ ~settings'.manualOverride) =>
              (dumpActive' = dumpActive /\ pin' = pin)
       /\ (last'.op = "tick" /\ ~settings.manualOverride) =>
              /\ InDeadBand' => (dumpActive' = dumpActive /\ pin' = pin)
              /\ pin' # pin => (AtOrAboveAbsorption' \/ AtOrBelowFloor')]_vars

\* the absorption voltage is NaN since the startup load (no save stores a
\* NaN), so no tick of this run has switched the load on by the voltage
\* rule: it was forced on under override.  The override has been left, and
\* a tick whose sample met neither threshold has kept the load on
C19_Witness ==
    /\ Ticked /\ ~settings.manualOverride
    /\ Absorption = NaN
    /\ ~AtOrAboveAbsorption /\ ~AtOrBelowFloor
    /\ last.dumpActive /\ dumpActive /\ pin = "HIGH"

----------------------------------------------------------------------------
(* The WiFi wait *)

\* C20: while setup waits for WiFi the only steps are further rounds of the
\* wait, the connection, or a reset: no tick runs, the pin stays as the
\* reset left it and the load is off; loop() is entered only by the step
\* that finds WiFi connected, and ticks and handlers run only in loop().
\* A run in which WiFi never connects never drives the load
C20_NoControlBeforeWifi ==
    [][/\ pc' = "wifi" =>
              (pin' = "LOW" /\ ~dumpActive' /\ lastUpdate' = U32(0))
       /\ pc = "wifi" => last'.op \in {"wifi", "begin", "reset"}
       /\ (pc # "loop" /\ pc' = "loop") => last'.op = "begin"
       /\ last'.op \in {"tick", "elapse", "root", "settings", "save"} =>
              pc = "loop"]_vars

\* setup has waited for WiFi longer than the tick interval: no tick has
\* run and the pin is LOW
C20_Witness ==
    /\ pc = "wifi" /\ last.op = "wifi"
    /\ now.hi = 0 /\ now.lo > Interval
    /\ lastUpdate = U32(0) /\ pin = "LOW"

====
